---- MODULE Spec2Model ----
(***************************************************************************)
(* Model of main.py, the YouTube channel discovery pipeline:               *)
(*   main -> collect_new_channels (search loop, batched detail loop)       *)
(*        -> filter_and_save_channels (age filter, count coercion, CSV).   *)
(*                                                                         *)
(* Time is counted in ticks, TicksPerDay ticks to the day.  A remote       *)
(* value is modelled by what the code can observe of it: a key is present  *)
(* or absent, a mapping is a mapping or something that has no .get, a      *)
(* timestamp string parses or does not, a statistic is a numeric string    *)
(* (its value kept in tenths, so that fractions exist) or other text.      *)
(***************************************************************************)
EXTENDS Integers, Sequences, FiniteSets, TLC

(* ----------------------------- bounds --------------------------------- *)
\* number of configured search queries handed to collect_new_channels
NumQueries == 3
\* largest number of items in one modelled search response
MaxItems == 2
\* resolution of the clock
TicksPerDay == 2
\* number of times the script is started (SpecRuns)
MaxRuns == 2
\* number of ticks the clock advances past its first tick
MaxClock == 2

(* ------------------------- program constants -------------------------- *)
\* range(0, len(channel_id_list), 50) / channel_id_list[i:i + 50]
BatchSize == 50
\* maxResults=50
MaxResults == 50
\* filter_and_save_channels(all_data, max_age_days=30.0)
max_age_days == 30

(* ------------------------------ helpers ------------------------------- *)
Range(s) == {s[k] : k \in DOMAIN s}

Min(a, b) == IF a <= b THEN a ELSE b

\* sequences over S of length at most n
SeqUpTo(S, n) == UNION {[1..k -> S] : k \in 0..n}

(* ---------------------- values of a remote response ------------------- *)
\* dict.get(key, default): a key of a response mapping is present or absent
Present(v) == [has |-> TRUE, v |-> v]
AbsentKey(d) == [has |-> FALSE, v |-> d]
Get(field, default) == IF field.has THEN field.v ELSE default

\* a timestamp string: an ISO-8601 "...Z" string naming tick t, or ""
IsoZ(t) == [iso |-> TRUE, t |-> t]
EmptyString == [iso |-> FALSE, t |-> 0]

\* a statistic as Python holds it before coercion: the int 0 that .get
\* defaults to, a numeric string (value in tenths), or a non-numeric string
IntZero == [kind |-> "int", tenths |-> 0]
NumStr(tenths) == [kind |-> "numstr", tenths |-> tenths]
TextStr == [kind |-> "text", tenths |-> 0]

\* "snippet"/"statistics" of an item: absent, a mapping, or a value without .get
NoMapping == "missing"
BadMapping == "bad"
DictMapping == "dict"

(* ------------------------- search_new_videos -------------------------- *)
\* one item of a search response: its snippet carries a channelId, carries
\* none, or is not a mapping at all
SearchItem(id) == [shape |-> "channel", channelId |-> id]
NoChannelId == [shape |-> "no_channel_id", channelId |-> 0]
BadSnippet == [shape |-> "bad_snippet", channelId |-> 0]

\* search_request.execute(): raises, or returns the response's items
Failure == [ok |-> FALSE, items |-> <<>>]
Response(items) == [ok |-> TRUE, items |-> items]

RECURSIVE SearchLoop(_)
\* the for loop of lines 119-122; .get on a snippet that is no mapping raises
\* inside the try, which ends the loop and keeps what was appended so far
SearchLoop(items) ==
    IF items = <<>> THEN <<>>
    ELSE IF Head(items).shape = "bad_snippet" THEN <<>>
    ELSE (IF Head(items).shape = "channel" THEN <<Head(items).channelId>> ELSE <<>>)
         \o SearchLoop(Tail(items))

search_new_videos(response) ==
    IF ~response.ok THEN <<>> ELSE SearchLoop(response.items)

(* ------------------------ get_channel_details ------------------------- *)
\* one item of a channels.list response
DetailItem(id, snippet, statistics) ==
    [id |-> id, snippet |-> snippet, statistics |-> statistics]

Snippet(title, publishedAt) ==
    [kind |-> DictMapping, title |-> title, publishedAt |-> publishedAt]
MissingSnippet ==
    [kind |-> NoMapping, title |-> AbsentKey(""), publishedAt |-> AbsentKey(EmptyString)]
NonMappingSnippet ==
    [kind |-> BadMapping, title |-> AbsentKey(""), publishedAt |-> AbsentKey(EmptyString)]

Statistics(subs, videos, views) ==
    [kind |-> DictMapping, subscriberCount |-> subs, videoCount |-> videos,
     viewCount |-> views]
MissingStatistics ==
    [kind |-> NoMapping, subscriberCount |-> AbsentKey(IntZero),
     videoCount |-> AbsentKey(IntZero), viewCount |-> AbsentKey(IntZero)]
NonMappingStatistics ==
    [kind |-> BadMapping, subscriberCount |-> AbsentKey(IntZero),
     videoCount |-> AbsentKey(IntZero), viewCount |-> AbsentKey(IntZero)]

\* the dictionary appended at lines 167-177
ChannelRow(item, utcnow) ==
    [channel_id        |-> item.id,
     channel_title     |-> Get(item.snippet.title, ""),
     published_at      |-> Get(item.snippet.publishedAt, EmptyString),
     subscriber_count  |-> Get(item.statistics.subscriberCount, IntZero),
     video_count       |-> Get(item.statistics.videoCount, IntZero),
     view_count        |-> Get(item.statistics.viewCount, IntZero),
     data_retrieved_at |-> IsoZ(utcnow)]

\* snippet.get / stats.get raise AttributeError when the value is no mapping
ItemRaises(item) ==
    item.snippet.kind = BadMapping \/ item.statistics.kind = BadMapping

RECURSIVE DetailLoop(_, _)
\* the for loop of lines 164-177: an exception raised by an item is caught at
\* line 180, after the loop was left; data keeps the rows appended before it
DetailLoop(items, utcnow) ==
    IF items = <<>> THEN <<>>
    ELSE IF ItemRaises(Head(items)) THEN <<>>
    ELSE <<ChannelRow(Head(items), utcnow)>> \o DetailLoop(Tail(items), utcnow)

get_channel_details(channel_ids, response, utcnow) ==
    IF channel_ids = <<>> THEN <<>>
    ELSE IF ~response.ok THEN <<>>
    ELSE DetailLoop(response.items, utcnow)

(* ---------------------- filter_and_save_channels ---------------------- *)
\* pd.to_datetime(..., errors="coerce") of one string: a timestamp or NaT.
\* Every "...Z" string is taken to parse, whatever its number of fractional
\* digits; "" does not.
NaT == [nat |-> TRUE, t |-> 0]
to_datetime(s) == IF s.iso THEN [nat |-> FALSE, t |-> s.t] ELSE NaT

\* The dtype of a parsed column.  Every parsed "...Z" string is tz-aware; a
\* column that holds no parsed string at all is an all-NaT column, which
\* pandas types tz-naive.
TzAware(column) == \E k \in DOMAIN column : ~to_datetime(column[k]).nat

PublishedColumn(data) == [k \in DOMAIN data |-> data[k].published_at]
RetrievedColumn(data) == [k \in DOMAIN data |-> data[k].data_retrieved_at]

\* line 245: subtracting a tz-naive column from a tz-aware one raises TypeError
SubtractionRaises(data) ==
    TzAware(RetrievedColumn(data)) # TzAware(PublishedColumn(data))

\* channel_age_days of one row, in ticks (days * TicksPerDay); NaN when a
\* side is NaT
NaN == [nan |-> TRUE, ticks |-> 0]
ChannelAge(row) ==
    LET r == to_datetime(row.data_retrieved_at)
        p == to_datetime(row.published_at)
    IN  IF r.nat \/ p.nat THEN NaN ELSE [nan |-> FALSE, ticks |-> r.t - p.t]

\* the filter written with "<": a channel exactly max_age_days old is lost
AgeMaskStrict(row, max_age) ==
    LET age == ChannelAge(row)
    IN  ~age.nan /\ age.ticks < max_age * TicksPerDay

\* line 247: channel_age_days <= max_age_days; a comparison with NaN is False
AgeMask(row, max_age) ==
    LET age == ChannelAge(row)
    IN  ~age.nan /\ age.ticks <= max_age * TicksPerDay

RECURSIVE SelectRows(_, _)
\* df[mask]: the rows that satisfy the mask, in order
SelectRows(data, max_age) ==
    IF data = <<>> THEN <<>>
    ELSE (IF AgeMask(Head(data), max_age) THEN <<Head(data)>> ELSE <<>>)
         \o SelectRows(Tail(data), max_age)

\* pd.to_numeric(..., errors="coerce"): the number, in tenths, or NaN
to_numeric(v) ==
    IF v.kind = "text" THEN [nan |-> TRUE, tenths |-> 0]
    ELSE [nan |-> FALSE, tenths |-> v.tenths]

\* the gaps filled with 1 instead of 0
fillna_one(x) == IF x.nan THEN [nan |-> FALSE, tenths |-> 10] ELSE x

\* .fillna(0)
fillna(x) == IF x.nan THEN [nan |-> FALSE, tenths |-> 0] ELSE x

\* .astype("int64") of a float: truncation toward zero
astype_int64(x) ==
    IF x.tenths >= 0 THEN x.tenths \div 10 ELSE -((-x.tenths) \div 10)

\* line 250, for one value of one of the three count columns
CoerceCount(v) == astype_int64(fillna(to_numeric(v)))

\* one row of df_new after lines 249-250
SnapshotRow(row) ==
    [channel_id        |-> row.channel_id,
     channel_title     |-> row.channel_title,
     published_at      |-> row.published_at,
     subscriber_count  |-> CoerceCount(row.subscriber_count),
     video_count       |-> CoerceCount(row.video_count),
     view_count        |-> CoerceCount(row.view_count),
     data_retrieved_at |-> row.data_retrieved_at,
     channel_age_ticks |-> ChannelAge(row).ticks]

RECURSIVE CoerceRows(_)
CoerceRows(rows) ==
    IF rows = <<>> THEN <<>>
    ELSE <<SnapshotRow(Head(rows))>> \o CoerceRows(Tail(rows))

df_new(data, max_age) == CoerceRows(SelectRows(data, max_age))

\* datetime.utcnow().strftime("%Y-%m-%d"): the day the tick falls on
date_str(utcnow) == utcnow \div TicksPerDay

\* f"new_youtube_channels_{date_str}.csv", and the "" returned for no file
Filename(date) == [stem |-> "new_youtube_channels_", date |-> date, ext |-> ".csv"]
NoFilename == [stem |-> "", date |-> 0, ext |-> ""]

RECURSIVE RowsOf(_, _)
\* the rows of the file called filename, none when there is no such file
RowsOf(fs, filename) ==
    IF fs = {} THEN <<>>
    ELSE LET f == CHOOSE g \in fs : TRUE
         IN  IF f.name = filename THEN f.rows ELSE RowsOf(fs \ {f}, filename)

\* the file opened with mode="a": the rows are added to those already there
to_csv_append(fs, filename, rows) ==
    {f \in fs : f.name # filename}
    \cup {[name |-> filename, rows |-> RowsOf(fs, filename) \o rows]}

\* df_new.to_csv(filename, index=False) on the directory's files: the file of
\* that name is created, or truncated and rewritten
to_csv(fs, filename, rows) ==
    {f \in fs : f.name # filename} \cup {[name |-> filename, rows |-> rows]}

\* the call of filter_and_save_channels: what it raises or returns, and the
\* files it leaves
filter_and_save_channels(data, max_age, utcnow, fs) ==
    IF data = <<>>
    THEN [raised |-> "", filename |-> NoFilename, fs |-> fs]
    ELSE IF SubtractionRaises(data)
    THEN [raised |-> "TypeError", filename |-> NoFilename, fs |-> fs]
    ELSE IF df_new(data, max_age) = <<>>
    THEN [raised |-> "", filename |-> NoFilename, fs |-> fs]
    ELSE [raised   |-> "",
          filename |-> Filename(date_str(utcnow)),
          fs       |-> to_csv(fs, Filename(date_str(utcnow)), df_new(data, max_age))]

(* ------------------------------- state -------------------------------- *)
VARIABLES
    pc,                \* where the process is: "main", "search", "details", "exit"
    raised,            \* the exception the process ended with, "" for none
    runs,              \* how many times the script was started
    utcnow,            \* the wall clock, in ticks
    api_key,           \* os.getenv("YOUTUBE_API_KEY")
    query_index,       \* position of the for loop of line 205 (1-based)
    all_channel_ids,   \* the set of line 203
    channel_id_list,   \* list(all_channel_ids), line 212
    i,                 \* the loop variable of line 213
    all_channel_data,  \* the list of line 211
    filename,          \* what filter_and_save_channels returned
    files,             \* the CSV files of the current directory
    \* what the remote side and the run's start looked like (history)
    search_calls,      \* number of search.list calls issued in this run
    detail_calls,      \* the batches handed to channels.list in this run, in order
    failed_searches,   \* number of search.list calls that raised in this run
    failed_details,    \* number of channels.list calls that raised in this run
    returned_ids,      \* IDs the searches that did not fail returned
    result_total,      \* sum of the per-query result counts
    id_repeated,       \* some query returned an ID an earlier query had returned
    items_received,    \* items delivered by the detail calls that did not fail
    files_at_start     \* the files when this run started

vars == <<pc, raised, runs, utcnow, api_key, query_index, all_channel_ids,
          channel_id_list, i, all_channel_data, filename, files, search_calls,
          detail_calls, failed_searches, failed_details, returned_ids,
          result_total, id_repeated, items_received, files_at_start>>

run_vars == <<query_index, all_channel_ids, channel_id_list, i, all_channel_data,
              filename>>
history_vars == <<search_calls, detail_calls, failed_searches, failed_details,
                  returned_ids, result_total, id_repeated, items_received>>

\* os.getenv: the variable is unset (None), set to "", or set to a key
Unset == [set |-> FALSE, value |-> ""]
SetTo(value) == [set |-> TRUE, value |-> value]
ApiKeys == {Unset, SetTo(""), SetTo("AIza")}

\* the first tick of the model's clock: late enough for a channel older than
\* max_age_days to have a creation time
StartTick == (max_age_days + 1) * TicksPerDay

Init ==
    /\ pc = "main"
    /\ raised = ""
    /\ runs = 1
    /\ utcnow = StartTick
    /\ api_key \in ApiKeys
    /\ query_index = 1
    /\ all_channel_ids = {}
    /\ channel_id_list = <<>>
    /\ i = 0
    /\ all_channel_data = <<>>
    /\ filename = NoFilename
    /\ files = {}
    /\ search_calls = 0
    /\ detail_calls = <<>>
    /\ failed_searches = 0
    /\ failed_details = 0
    /\ returned_ids = {}
    /\ result_total = 0
    /\ id_repeated = FALSE
    /\ items_received = 0
    /\ files_at_start = {}

(* ------------------------------- main --------------------------------- *)
\* the check of the key left out
KeyNeverMissing(key) == FALSE

\* lines 272-279: "if not api_key: raise RuntimeError"
KeyMissing(key) == ~key.set \/ key.value = ""

main ==
    /\ pc = "main"
    /\ IF KeyMissing(api_key)
       THEN /\ pc' = "exit"
            /\ raised' = "RuntimeError"
       ELSE /\ pc' = "search"
            /\ raised' = ""
    /\ UNCHANGED <<runs, utcnow, api_key, run_vars, files, history_vars,
                   files_at_start>>

(* ------------------------ collect_new_channels ------------------------ *)
\* all_channel_ids = set(channel_ids): assignment where update was meant
SetAssign(ids, channel_ids) == Range(channel_ids)

\* all_channel_ids ^= set(channel_ids): an ID found a second time is removed
SetToggle(ids, channel_ids) ==
    (ids \ Range(channel_ids)) \cup (Range(channel_ids) \ ids)

\* all_channel_ids.update(channel_ids)
SetUpdate(ids, channel_ids) == ids \cup Range(channel_ids)

\* one iteration of the loop of lines 205-209, the remote answering `response`
Search(response) ==
    /\ pc = "search"
    /\ query_index <= NumQueries
    /\ LET channel_ids == search_new_videos(response)
       IN  /\ all_channel_ids' = SetUpdate(all_channel_ids, channel_ids)
           /\ returned_ids' = IF response.ok
                              THEN returned_ids \cup Range(channel_ids)
                              ELSE returned_ids
           /\ result_total' = result_total + Len(channel_ids)
           /\ id_repeated' = (id_repeated \/ Range(channel_ids) \cap returned_ids # {})
    /\ query_index' = query_index + 1
    /\ search_calls' = search_calls + 1
    /\ failed_searches' = failed_searches + (IF response.ok THEN 0 ELSE 1)
    /\ UNCHANGED <<pc, raised, runs, utcnow, api_key, channel_id_list, i,
                   all_channel_data, filename, files, detail_calls,
                   failed_details, items_received, files_at_start>>

RECURSIVE AscendingIn(_, _, _)
\* the elements of S, all within lo..hi, in ascending order
AscendingIn(S, lo, hi) ==
    IF S = {} THEN <<>>
    ELSE IF lo = hi THEN <<lo>>
    ELSE LET mid == (lo + hi) \div 2
         IN  AscendingIn({x \in S : x <= mid}, lo, mid)
             \o AscendingIn({x \in S : x > mid}, mid + 1, hi)

\* the elements of a set of IDs in ascending order
Ascending(S) ==
    IF S = {} THEN <<>>
    ELSE AscendingIn(S, CHOOSE x \in S : \A y \in S : x <= y,
                        CHOOSE x \in S : \A y \in S : x >= y)

Reverse(s) == [k \in 1..Len(s) |-> s[Len(s) + 1 - k]]

\* list(all_channel_ids): the iteration order of a set is not specified; the
\* model lets it be ascending or descending
ListOrders(S) == {Ascending(S), Reverse(Ascending(S))}

\* lines 211-212, once the search loop is over
ListIds(order) ==
    /\ pc = "search"
    /\ query_index > NumQueries
    /\ order \in ListOrders(all_channel_ids)
    /\ channel_id_list' = order
    /\ all_channel_data' = <<>>
    /\ i' = 0
    /\ pc' = "details"
    /\ UNCHANGED <<raised, runs, utcnow, api_key, query_index, all_channel_ids,
                   filename, files, history_vars, files_at_start>>

\* channel_id_list[i:i + 51]: a slice one longer than the loop's step
BatchTooLong(list, start) ==
    SubSeq(list, start + 1, Min(start + BatchSize + 1, Len(list)))

\* channel_id_list[i:i + 50]
Batch(list, start) == SubSeq(list, start + 1, Min(start + BatchSize, Len(list)))

\* one iteration of the loop of lines 213-217, the remote answering `response`
Details(response) ==
    /\ pc = "details"
    /\ i < Len(channel_id_list)
    /\ LET batch == Batch(channel_id_list, i)
       IN  /\ all_channel_data' =
                 all_channel_data \o get_channel_details(batch, response, utcnow)
           /\ detail_calls' = Append(detail_calls, batch)
    /\ i' = i + BatchSize
    /\ failed_details' = failed_details + (IF response.ok THEN 0 ELSE 1)
    /\ items_received' = items_received + Len(response.items)
    /\ UNCHANGED <<pc, raised, runs, utcnow, api_key, query_index,
                   all_channel_ids, channel_id_list, filename, files,
                   search_calls, failed_searches, returned_ids, result_total,
                   id_repeated, files_at_start>>

\* line 291, once the detail loop is over; the process then ends
Save ==
    /\ pc = "details"
    /\ i >= Len(channel_id_list)
    /\ LET out == filter_and_save_channels(all_channel_data, max_age_days,
                                           utcnow, files)
       IN  /\ raised' = out.raised
           /\ filename' = out.filename
           /\ files' = out.fs
    /\ pc' = "exit"
    /\ UNCHANGED <<runs, utcnow, api_key, query_index, all_channel_ids,
                   channel_id_list, i, all_channel_data, history_vars,
                   files_at_start>>

\* datetime.utcnow() is read while a row is built and again when the file is
\* named: the clock may advance while the process runs
Tick ==
    /\ pc \in {"search", "details"}
    /\ utcnow < StartTick + MaxClock
    /\ utcnow' = utcnow + 1
    /\ UNCHANGED <<pc, raised, runs, api_key, run_vars, files, history_vars,
                   files_at_start>>

\* the script is started again (a later scheduled run), the clock having
\* advanced by `elapsed` ticks and the environment holding `key`
Rerun(key, elapsed) ==
    /\ pc = "exit"
    /\ runs < MaxRuns
    /\ utcnow + elapsed <= StartTick + MaxClock
    /\ runs' = runs + 1
    /\ pc' = "main"
    /\ raised' = ""
    /\ utcnow' = utcnow + elapsed
    /\ api_key' = key
    /\ query_index' = 1
    /\ all_channel_ids' = {}
    /\ channel_id_list' = <<>>
    /\ i' = 0
    /\ all_channel_data' = <<>>
    /\ filename' = NoFilename
    /\ search_calls' = 0
    /\ detail_calls' = <<>>
    /\ failed_searches' = 0
    /\ failed_details' = 0
    /\ returned_ids' = {}
    /\ result_total' = 0
    /\ id_repeated' = FALSE
    /\ items_received' = 0
    /\ files_at_start' = files
    /\ UNCHANGED files

(* ------------------- what the remote side may answer ------------------ *)
\* channel IDs of the small configurations
ChannelIds == {1, 2}

SearchItems == {SearchItem(id) : id \in ChannelIds} \cup {NoChannelId, BadSnippet}

\* search.list: a failure, or up to MaxItems items of any shape
SearchResponses ==
    {Failure} \cup {Response(items) : items \in SeqUpTo(SearchItems, MaxItems)}

\* creation times around the age threshold, seen from tick t: exactly
\* max_age_days old, one tick older, one tick old
AtThreshold(t) == IsoZ(t - max_age_days * TicksPerDay)
PastThreshold(t) == IsoZ(t - max_age_days * TicksPerDay - 1)
Recent(t) == IsoZ(t - 1)

Snippets(t) ==
    {MissingSnippet, NonMappingSnippet,
     Snippet(Present("T"), Present(AtThreshold(t))),
     Snippet(Present("T"), Present(PastThreshold(t))),
     Snippet(AbsentKey(""), Present(Recent(t))),
     Snippet(Present("T"), AbsentKey(EmptyString))}

\* statistics: "7", "12" and "100" are plain counts, "-5" is negative, "3.7"
\* and "-3.7" are fractional, TextStr is a string that is no number
StatisticsChoices ==
    {MissingStatistics, NonMappingStatistics,
     Statistics(Present(NumStr(70)), Present(NumStr(120)), Present(NumStr(1000))),
     Statistics(Present(TextStr), AbsentKey(IntZero), Present(NumStr(70))),
     Statistics(AbsentKey(IntZero), Present(NumStr(37)), Present(TextStr)),
     Statistics(Present(NumStr(-50)), Present(TextStr), AbsentKey(IntZero)),
     Statistics(Present(NumStr(70)), Present(NumStr(-37)), Present(NumStr(-50)))}

RECURSIVE ItemLists(_, _)
\* channels.list answers with at most one item per requested ID, in the
\* order requested; an ID it does not know has no item
ItemLists(batch, t) ==
    IF batch = <<>> THEN {<<>>}
    ELSE LET rest == ItemLists(Tail(batch), t)
         IN  rest \cup
             {<<DetailItem(Head(batch), sn, st)>> \o r :
                 sn \in Snippets(t), st \in StatisticsChoices, r \in rest}

DetailResponses(batch, t) ==
    {Failure} \cup {Response(items) : items \in ItemLists(batch, t)}

(* --------------------------- specification ---------------------------- *)
\* one run of the script against every modelled answer of the remote side
Next ==
    \/ main
    \/ \E response \in SearchResponses : Search(response)
    \/ \E order \in ListOrders(all_channel_ids) : ListIds(order)
    \/ \E response \in DetailResponses(Batch(channel_id_list, i), utcnow) :
          Details(response)
    \/ Save
    \/ Tick

Spec == Init /\ [][Next]_vars

(* -------------------- full pages of search results -------------------- *)
\* a page of n results whose channels are lo, lo + 1, ...
Page(lo, n) == Response([k \in 1..n |-> SearchItem(lo + k - 1)])

\* pages of MaxResults or fewer results that overlap or not, so that the
\* searches together find between 0 and NumQueries * MaxResults channels
PageStarts == {1, 51, 101}
PageLengths == {1, 20, MaxResults}
PageResponses ==
    {Failure} \cup {Page(lo, n) : lo \in PageStarts, n \in PageLengths}

\* channels.list answering a batch with a failure, with nothing, or with the
\* item of the batch's first channel
FirstItemResponses(batch, t) ==
    {Failure, Response(<<>>)} \cup
    {Response(<<DetailItem(batch[k],
                           Snippet(Present("T"), Present(Recent(t))),
                           Statistics(Present(NumStr(70)), Present(NumStr(120)),
                                      Present(NumStr(1000))))>>) :
        k \in DOMAIN batch \cap {1}}

\* one run of the script over full result pages, short enough for the clock
\* to stay on its tick
NextBatch ==
    \/ main
    \/ \E response \in PageResponses : Search(response)
    \/ \E order \in ListOrders(all_channel_ids) : ListIds(order)
    \/ \E response \in FirstItemResponses(Batch(channel_id_list, i), utcnow) :
          Details(response)
    \/ Save

SpecBatch == Init /\ [][NextBatch]_vars

(* --------------------------- repeated runs ---------------------------- *)
\* a search that fails, finds one channel, or finds two
FewSearchResponses ==
    {Failure, Response(<<SearchItem(1)>>), Response(<<SearchItem(2), SearchItem(1)>>)}

FewSnippets(t) ==
    {Snippet(Present("T"), Present(AtThreshold(t))),
     Snippet(Present("T"), Present(PastThreshold(t)))}

RECURSIVE FewItemLists(_, _)
FewItemLists(batch, t) ==
    IF batch = <<>> THEN {<<>>}
    ELSE {<<DetailItem(Head(batch), sn,
                       Statistics(Present(NumStr(70)), AbsentKey(IntZero),
                                  Present(TextStr)))>> \o r :
             sn \in FewSnippets(t), r \in FewItemLists(Tail(batch), t)}

FewDetailResponses(batch, t) ==
    {Failure} \cup {Response(items) : items \in FewItemLists(batch, t)}

\* the clock between two starts: the same tick, the next tick, the next day
Elapsed == {0, 1, TicksPerDay}

\* the script started up to MaxRuns times in the same directory
NextRuns ==
    \/ main
    \/ \E response \in FewSearchResponses : Search(response)
    \/ \E order \in ListOrders(all_channel_ids) : ListIds(order)
    \/ \E response \in FewDetailResponses(Batch(channel_id_list, i), utcnow) :
          Details(response)
    \/ Save
    \/ Tick
    \/ \E key \in ApiKeys, elapsed \in Elapsed : Rerun(key, elapsed)

SpecRuns == Init /\ [][NextRuns]_vars

(* ============================== claims ================================ *)
\* the age of an enriched record is defined and at most max_age_days
Qualifies(row) ==
    /\ row.published_at.iso
    /\ row.data_retrieved_at.iso
    /\ row.data_retrieved_at.t - row.published_at.t <= max_age_days * TicksPerDay

\* the run got past the credential check and is over
RunOver == pc = "exit" /\ raised # "RuntimeError"

\* the rows of the file this run wrote
WrittenRows == UNION {Range(f.rows) : f \in {g \in files : g.name = filename}}

Wrote == filename # NoFilename

C2_Handoff ==
    pc \in {"details", "exit"} /\ raised # "RuntimeError" =>
        /\ search_calls = NumQueries
        /\ all_channel_ids = returned_ids

\* every batch was issued, and a run that collected a qualifying record ends
\* without an exception and with its file written
C2_Completes ==
    RunOver =>
        /\ UNION {Range(detail_calls[k]) : k \in DOMAIN detail_calls} = all_channel_ids
        /\ (\E k \in DOMAIN all_channel_data : Qualifies(all_channel_data[k])) =>
              /\ raised = ""
              /\ filename = Filename(date_str(utcnow))
              /\ \E f \in files : f.name = filename /\ f.rows # <<>>

\* a call that failed added no ID and no record, and the loop went on
C2_FailedCallAddsNothing ==
    /\ failed_searches' # failed_searches =>
          /\ all_channel_ids' = all_channel_ids
          /\ result_total' = result_total
          /\ pc' = "search" /\ query_index' = query_index + 1
    /\ failed_details' # failed_details =>
          /\ all_channel_data' = all_channel_data
          /\ pc' = "details" /\ i' = i + BatchSize

C3_Batching ==
    RunOver =>
        LET N == Cardinality(all_channel_ids)
            calls == detail_calls
        IN  /\ Len(calls) = (N + BatchSize - 1) \div BatchSize
            /\ \A k \in DOMAIN calls :
                  /\ Len(calls[k]) >= 1
                  /\ Len(calls[k]) <= BatchSize
                  /\ k < Len(calls) => Len(calls[k]) = BatchSize
            /\ \A id \in all_channel_ids :
                  Cardinality({<<k, j>> \in (DOMAIN calls) \X (1..BatchSize) :
                                  j <= Len(calls[k]) /\ calls[k][j] = id}) = 1

\* 120 IDs were fetched in three calls of 50, 50 and 20
C3_Witness ==
    /\ RunOver
    /\ Cardinality(all_channel_ids) = 120
    /\ Len(detail_calls) = 3
    /\ Len(detail_calls[1]) = 50 /\ Len(detail_calls[2]) = 50
    /\ Len(detail_calls[3]) = 20

\* C4: with the credential absent, main fails with a configuration error
\* before any search or detail call and before any file is written or changed.
C4_MissingKeyIsFatal ==
    (pc # "main" /\ (~api_key.set \/ api_key.value = "")) =>
        /\ pc = "exit"
        /\ raised = "RuntimeError"
        /\ search_calls = 0
        /\ detail_calls = <<>>
        /\ filename = NoFilename
        /\ files = files_at_start

\* a run without the credential ended beside the file of an earlier run
C4_Witness ==
    /\ pc = "exit" /\ raised = "RuntimeError"
    /\ ~api_key.set
    /\ files # {}

\* C5 (as stated): whenever no record survives the age filter, the run
\* creates no file, leaves the files as they were and ends without an error.
C5_EmptyResultIsSuccess ==
    (pc = "exit" /\ ~KeyMissing(api_key)
        /\ \A k \in DOMAIN all_channel_data : ~Qualifies(all_channel_data[k])) =>
        /\ raised = ""
        /\ filename = NoFilename
        /\ files = files_at_start

\* C6 (as stated): a missing or malformed field of a detail item never costs
\* a record: every item delivered yields a record, text defaulting to "" and
\* counts to zero, and the pipeline does not fail.
C6_EveryItemYieldsRecord ==
    /\ Len(all_channel_data) = items_received
    /\ raised # "TypeError"

\* C7: for every surviving record, a statistic the response omitted and a
\* statistic that is a non-numeric string are both the integer zero in the
\* snapshot, and the run ends without an exception.
C7_BadStatisticIsZero ==
    RunOver =>
        \A k \in DOMAIN all_channel_data :
            LET row == all_channel_data[k]
                lost(v) == v.kind \in {"int", "text"}
            IN  Qualifies(row) =>
                    /\ raised = ""
                    /\ Wrote
                    /\ \E r \in WrittenRows :
                          /\ r.channel_id = row.channel_id
                          /\ lost(row.subscriber_count) => r.subscriber_count = 0
                          /\ lost(row.video_count) => r.video_count = 0
                          /\ lost(row.view_count) => r.view_count = 0

\* a surviving record had one statistic omitted and one non-numeric
C7_Witness ==
    /\ RunOver /\ Wrote
    /\ \E k \in DOMAIN all_channel_data :
          /\ Qualifies(all_channel_data[k])
          /\ all_channel_data[k].subscriber_count = TextStr
          /\ all_channel_data[k].video_count = IntZero

\* C8 (as stated): in every snapshot written, the three counts of every
\* record are non-negative integers, whatever the response supplied.
C8_CountsNonNegative ==
    \A f \in files : \A k \in DOMAIN f.rows :
        /\ f.rows[k].subscriber_count >= 0
        /\ f.rows[k].video_count >= 0
        /\ f.rows[k].view_count >= 0

\* C9: after all queries, the deduplicated ID set is no larger than the sum
\* of the per-query result counts, equal to it only when no ID repeated across
\* queries, and an ID returned by several queries is stored once.
C9_Deduplicated ==
    (pc \in {"details", "exit"} /\ raised # "RuntimeError") =>
        /\ Cardinality(all_channel_ids) <= result_total
        /\ Cardinality(all_channel_ids) = result_total => ~id_repeated
        /\ \A id \in returned_ids :
              Cardinality({k \in DOMAIN channel_id_list : channel_id_list[k] = id}) = 1

\* an ID that two queries returned is in the list handed to enrichment
C9_Witness ==
    /\ pc = "details"
    /\ id_repeated
    /\ Cardinality(all_channel_ids) = 2
    /\ result_total > 2

\* C10: a run that writes, writes exactly one file, named for the current
\* UTC date; there is never more than one file for a date, and the file of a
\* run holds that run's snapshot alone, whatever was there before.
C10_OneFilePerDate ==
    /\ \A f \in files : f.name = Filename(f.name.date)
    /\ \A f, g \in files : f.name = g.name => f = g
    /\ pc # "exit" => files = files_at_start
    /\ (pc = "exit" /\ ~Wrote) => files = files_at_start
    /\ (pc = "exit" /\ Wrote) =>
          /\ filename = Filename(date_str(utcnow))
          /\ files = {f \in files_at_start : f.name # filename}
                     \cup {[name |-> filename,
                            rows |-> df_new(all_channel_data, max_age_days)]}

\* a second run on the same date replaced the file of the first by a
\* different snapshot
C10_Witness ==
    /\ pc = "exit" /\ Wrote /\ runs = 2
    /\ \E f \in files_at_start :
          /\ f.name = filename
          /\ f.rows # df_new(all_channel_data, max_age_days)
    /\ Cardinality(files) = 1

====
